---------------------------- MODULE Spec2Model ----------------------------
(***************************************************************************)
(* A model of static-poly: fixed-capacity polynomials static_poly<T, N>    *)
(* over integer coefficients, with the operators of the header.            *)
(*                                                                         *)
(* A polynomial is the sequence of its N coefficients m_data[0..N-1]; the  *)
(* C++ index i is the TLA+ index i + 1 (At, Put).  Len is the capacity N.  *)
(* The header exists in two revisions: the one bundled in src/example.cpp  *)
(* (unsuffixed names) and the earlier src/static_poly.hpp (names ending in *)
(* _hpp, only where the two differ).                                       *)
(***************************************************************************)
EXTENDS Integers, Sequences, FiniteSets, TLC

\* Largest capacity of an input polynomial (the left operand).
MaxCap == 3
\* Largest capacity of the right operand of a binary operator.
MaxCapB == 2
\* Input coefficients range over -MaxCoef .. MaxCoef.
MaxCoef == 1
\* Largest exponent handed to power<exp>.
MaxExp == 4
\* A conversion to a larger capacity adds up to ExtraCap coefficients.
ExtraCap == 2
\* Scalars are -MaxScalar .. MaxScalar.
MaxScalar == 3

VARIABLES a, b, op, out

vars == <<a, b, op, out>>

Coef == (0 - MaxCoef) .. MaxCoef

\* The scalars handed to operators and the points of evaluation.
Scalars == (0 - MaxScalar) .. MaxScalar

\* All polynomials of capacity exactly N with coefficients in Coef.
PolysOfCap(N) == [1..N -> Coef]

\* All input polynomials: capacity 0 .. MaxCap.
Polys == UNION {PolysOfCap(N) : N \in 0..MaxCap}

\* Right operands: capacity 0 .. MaxCapB.
PolysB == UNION {PolysOfCap(N) : N \in 0..MaxCapB}

\* Operands of the unary operations: capacity 0 .. MaxCap + 1.
PolysU == UNION {PolysOfCap(N) : N \in 0..(MaxCap + 1)}

\* Coefficients of the operands of a comparison.  operator == only tells a
\* zero coefficient from a non-zero one and equal coefficients from
\* different ones: zero and two non-zero values show every case.
CoefE == {0, 1, 2}

\* Left operands of the comparisons.
PolysE == UNION {[1..N -> CoefE] : N \in 0..MaxCap}

\* Right and third operands of the comparisons.
PolysEB == UNION {[1..N -> CoefE] : N \in 0..MaxCapB}

Max(x, y) == IF x >= y THEN x ELSE y

Min(x, y) == IF x <= y THEN x ELSE y

Abs(x) == IF x < 0 THEN 0 - x ELSE x

\* A function on 1..N as the tuple of its values (m_data holds values).
Array(f) == f \o <<>>

\* p[i] with the C++ index i = 0 .. N-1.
At(p, i) == p[i + 1]

\* p[i] = v.
Put(p, i, v) == [p EXCEPT ![i + 1] = v]

(***************************************************************************)
(* struct static_poly: constructors, size, degree, operator bool.          *)
(***************************************************************************)

\* operator[] (size_type i) const: return m_data[i], with no test of i.  An
\* index outside 0 .. N-1 reads outside the array, which is undefined: the
\* call returns whatever the build finds there, or the process is stopped.
subscript(p, i) ==
    IF 0 <= i /\ i < Len(p)
    THEN {[status |-> "ok", value |-> At(p, i), p |-> p]}
    ELSE {[status |-> "ok", value |-> g, p |-> p] : g \in Coef}
           \cup {[status |-> "crash", value |-> 0, p |-> p]}

\* operator[] (size_type i) used for a write p[i] = v, with no test of i.
\* An index outside 0 .. N-1 writes outside the array: the object keeps its
\* coefficients and the call returns, or the process is stopped.
subscript_store(p, i, v) ==
    IF 0 <= i /\ i < Len(p)
    THEN {[status |-> "ok", value |-> v, p |-> Put(p, i, v)]}
    ELSE {[status |-> "ok", value |-> v, p |-> p],
          [status |-> "crash", value |-> 0, p |-> p]}

\* static_poly() : m_data{}
zero_poly(N) == Array([i \in 1..N |-> 0])

\* The range constructor leaving the last value copied in the rest of m_data.
static_poly_range_fill(N, s) ==
    Array([i \in 1..N |-> IF i <= Len(s) THEN s[i]
                           ELSE IF Len(s) > 0 THEN s[Len(s)] ELSE 0])

\* static_poly(It first, It last): copies while i < N and first != last,
\* the rest of m_data{} stays 0.
static_poly_range(N, s) ==
    Array([i \in 1..N |-> IF i <= Len(s) THEN s[i] ELSE 0])

\* explicit static_poly(const static_poly<U, N1>& p)
static_poly_convert(N, p) == static_poly_range(N, p)

\* explicit static_poly(const U& point) : m_data{point}
static_poly_point(N, point) ==
    Array([i \in 1..N |-> IF i = 1 THEN point ELSE 0])

size(p) == Len(p)

RECURSIVE degree_scan(_, _)
degree_scan(p, i) ==
    IF i < 0 THEN 0 - 1
    ELSE IF At(p, i) # 0 THEN i
    ELSE degree_scan(p, i - 1)

\* degree() with "return 0" for the zero polynomial instead of the sentinel.
degree_zero_default(p) ==
    IF degree_scan(p, Len(p) - 1) < 0 THEN 0 ELSE degree_scan(p, Len(p) - 1)

\* degree() with the loop started at N-2.
degree_below_top(p) == degree_scan(p, Len(p) - 2)

\* for (int i = N-1; i >= 0; --i) if (m_data[i]) return i; return -1;
degree(p) == degree_scan(p, Len(p) - 1)

\* explicit operator bool(): degree() >= 0
to_bool(p) == degree(p) >= 0

(***************************************************************************)
(* Evaluation at a point: evaluate_polynomial of src/evaluate.hpp, called  *)
(* by static_poly::operator().                                             *)
(***************************************************************************)

\* The loop adding the coefficient before the multiplication by z.
RECURSIVE evaluate_loop_add_first(_, _, _, _)
evaluate_loop_add_first(poly, z, sum, i) ==
    IF i < 0 THEN sum
    ELSE evaluate_loop_add_first(poly, z, (sum + At(poly, i)) * z, i - 1)

\* for (i = count - 2; i >= 0; --i) { sum *= z; sum += poly[i]; }
RECURSIVE evaluate_loop(_, _, _, _)
evaluate_loop(poly, z, sum, i) ==
    IF i < 0 THEN sum
    ELSE evaluate_loop(poly, z, sum * z + At(poly, i), i - 1)

\* evaluate_polynomial(poly, z, count): U sum = poly[count - 1]; the loop.
evaluate_polynomial(poly, z, count) ==
    evaluate_loop(poly, z, At(poly, count - 1), count - 2)

\* T operator() (T z) const: evaluate_polynomial(m_data, z), the array
\* overload, which passes the array's length N as count.
call_operator(p, z) == evaluate_polynomial(p, z, Len(p))

(***************************************************************************)
(* Polynomial x polynomial multiply.                                        *)
(***************************************************************************)

\* The inner loop with "=" written for "+=": the last j + i = c wins.
mul_inner_assign(prod, x, y, i, jEnd) ==
    Array([c \in 1..Len(prod) |->
             LET j == (c - 1) - i
             IN  IF j >= 0 /\ j < jEnd THEN At(x, i) * At(y, j) ELSE prod[c]])

\* for (j < jEnd) prod[i+j] += x[i] * y[j]: the inner loop, which adds
\* x[i]*y[j] to the one coefficient i + j for each j.
mul_inner(prod, x, y, i, jEnd) ==
    Array([c \in 1..Len(prod) |->
             LET j == (c - 1) - i
             IN  IF j >= 0 /\ j < jEnd
                 THEN prod[c] + At(x, i) * At(y, j)
                 ELSE prod[c]])

RECURSIVE mul_outer(_, _, _, _)
mul_outer(prod, x, y, i) ==
    IF i >= Len(x) THEN prod
    ELSE mul_outer(mul_inner(prod, x, y, i, Len(y)), x, y, i + 1)

\* operator * (src/example.cpp): capacity N1 + N2 - 1.
poly_mul(x, y) ==
    IF ~to_bool(x) \/ ~to_bool(y)
    THEN zero_poly(Len(x) + Len(y) - 1)
    ELSE mul_outer(zero_poly(Len(x) + Len(y) - 1), x, y, 0)

\* operator * (src/static_poly.hpp): capacity N1 + N2.
poly_mul_hpp(x, y) ==
    IF ~to_bool(x) \/ ~to_bool(y)
    THEN zero_poly(Len(x) + Len(y))
    ELSE mul_outer(zero_poly(Len(x) + Len(y)), x, y, 0)

(***************************************************************************)
(* Equality.                                                               *)
(***************************************************************************)

RECURSIVE eq_down(_, _, _)
eq_down(x, y, n) ==
    IF n < 0 THEN TRUE
    ELSE IF At(x, n) # At(y, n) THEN FALSE
    ELSE eq_down(x, y, n - 1)

RECURSIVE eq_up_hpp(_, _, _, _)
eq_up_hpp(x, y, i, n) ==
    IF i >= n THEN TRUE
    ELSE IF At(x, i) # At(y, i) THEN FALSE
    ELSE eq_up_hpp(x, y, i + 1, n)

\* operator == comparing size() where it should compare degree().
operator_eq_sized(x, y) ==
    IF Len(y) # Len(x) THEN FALSE ELSE eq_down(x, y, degree(x))

\* operator == (src/example.cpp): for (; n >= 0; --n) if (a[n] != b[n]) ...
operator_eq(x, y) ==
    IF degree(y) # degree(x) THEN FALSE ELSE eq_down(x, y, degree(x))

\* operator == (src/static_poly.hpp): for (int i = 0; i < n; ++i) ...
operator_eq_hpp(x, y) ==
    IF degree(y) # degree(x) THEN FALSE ELSE eq_up_hpp(x, y, 0, degree(x))

(***************************************************************************)
(* Ordering.                                                               *)
(***************************************************************************)

\* The coefficient loop deciding at the lowest index that differs.
lt_up(x, y, k) ==
    LET D == {i \in 0..k : At(x, i) # At(y, i)}
    IN  IF D = {} THEN FALSE
        ELSE LET i == CHOOSE d \in D : \A e \in D : d <= e
             IN  At(x, i) < At(y, i)

\* for (; k >= 0; --k) if (a[k] != b[k]) return a[k] < b[k]; return false;
RECURSIVE lt_down(_, _, _)
lt_down(x, y, k) ==
    IF k < 0 THEN FALSE
    ELSE IF At(x, k) # At(y, k) THEN At(x, k) < At(y, k)
    ELSE lt_down(x, y, k - 1)

\* operator <
operator_lt(x, y) ==
    LET k == degree(x)
    IN  IF degree(y) # k THEN k < degree(y) ELSE lt_down(x, y, k)

\* operator <=: a < b || a == b
operator_le(x, y) == operator_lt(x, y) \/ operator_eq(x, y)

\* operator >=: !(a < b)
operator_ge(x, y) == ~operator_lt(x, y)

\* operator >: !(a <= b)
operator_gt(x, y) == ~operator_le(x, y)

(***************************************************************************)
(* Polynomial + polynomial, polynomial - polynomial.                       *)
(***************************************************************************)

\* operator + returning a sum of the left operand's capacity.
poly_add_narrow(x, y) ==
    Array([i \in 1..Len(x) |-> IF i <= Len(y) THEN x[i] + y[i] ELSE x[i]])

\* operator +: sum(a), then for (i < N2) sum[i] += b[i].
poly_add(x, y) ==
    LET sum == static_poly_convert(Max(Len(x), Len(y)), x)
    IN  Array([i \in 1..Len(sum) |-> IF i <= Len(y) THEN sum[i] + y[i] ELSE sum[i]])

\* operator -: diff(a), then for (i < N2) diff[i] -= b[i].
poly_sub(x, y) ==
    LET diff == static_poly_convert(Max(Len(x), Len(y)), x)
    IN  Array([i \in 1..Len(diff) |-> IF i <= Len(y) THEN diff[i] - y[i] ELSE diff[i]])

(***************************************************************************)
(* Division: quotient_remainder, detail::division, detail::division_impl   *)
(* for integral T (Knuth's Algorithm R), detail::integer_power.            *)
(***************************************************************************)

RECURSIVE integer_power(_, _)
integer_power(t, n) ==
    CASE n = 0 -> 1
      [] n = 1 -> t
      [] n = 2 -> t * t
      [] n = 3 -> t * t * t
      [] OTHER -> LET half == integer_power(t, n \div 2)
                      sq   == half * half
                  IN  IF n % 2 = 1 THEN sq * t ELSE sq

\* One step of Algorithm R.  q[k] = u[n+k] * v[n]^k; then for j = n+k-1
\* down to 0: u[j] = v[n]*u[j] - (j < k ? 0 : u[n+k]*v[j-k]).  Each u[j]
\* reads only itself and u[n+k], which the loop leaves alone.  A q[k]
\* beyond q's capacity is an out-of-bounds write: q is returned unwritten
\* here and division() reports the step as undefined.
division_impl(q, u, v, n, k) ==
    [q |-> IF k < Len(q) THEN Put(q, k, At(u, n + k) * integer_power(At(v, n), k))
           ELSE q,
     u |-> Array([i \in 1..Len(u) |->
              LET j == i - 1
              IN  IF j < n + k
                  THEN At(v, n) * At(u, j)
                       - (IF j < k THEN 0 ELSE At(u, n + k) * At(v, j - k))
                  ELSE At(u, j)])]

\* do division_impl(q, u, v, n, k); while (k--);
RECURSIVE division_loop(_, _, _, _, _)
division_loop(q, u, v, n, k) ==
    LET s == division_impl(q, u, v, n, k)
    IN  IF k = 0 THEN s ELSE division_loop(s.q, s.u, v, n, k - 1)

QuotCap(N1, N2) == Max(N1 - N2 + 1, 1)

\* The remainder's capacity one short of std::min(N1, N2).
RemCap_short(N1, N2) == Min(N1, N2) - 1

RemCap(N1, N2) == Min(N1, N2)

\* detail::division(u, v), entered with degree(u) >= degree(v).  ndebug says
\* whether the build compiles the asserts out.  status: "ok", "abort" (a
\* failed assert) or "ub" (an access outside an array; quot and rem are then
\* what the in-bounds part of the computation leaves).
division(u, v, ndebug) ==
    LET m == degree(u)
        n == degree(v)
        k == m - n
        N3 == QuotCap(Len(u), Len(v))
        s == division_loop(zero_poly(N3), u, v, n, k)
        res(st) == [status |-> st, quot |-> s.q,
                    rem |-> static_poly_convert(RemCap(Len(u), Len(v)), s.u)]
        bad == [status |-> "abort", quot |-> <<>>, rem |-> <<>>]
    IN  IF ~ndebug /\ ~(Len(v) <= Len(u) /\ to_bool(v) /\ to_bool(u)) THEN bad
        ELSE IF n < 0 \/ m < 0
             THEN [status |-> "ub", quot |-> zero_poly(N3),
                   rem |-> static_poly_convert(RemCap(Len(u), Len(v)), u)]
        ELSE IF k >= N3 THEN res("ub")
        ELSE res("ok")

\* quotient_remainder(dividend, divisor)
quotient_remainder(dividend, divisor, ndebug) ==
    IF ~ndebug /\ ~to_bool(divisor)
    THEN [status |-> "abort", quot |-> <<>>, rem |-> <<>>]
    ELSE IF degree(dividend) < degree(divisor)
    THEN [status |-> "ok",
          quot |-> zero_poly(QuotCap(Len(dividend), Len(divisor))),
          rem |-> static_poly_convert(RemCap(Len(dividend), Len(divisor)), dividend)]
    ELSE division(dividend, divisor, ndebug)

\* What a build can return after undefined behaviour: the result of the
\* in-bounds part, or quotient and remainder filled with a stray value g.
UBOutcomes(r) ==
    {r} \cup {[status |-> "ub",
               quot |-> Array([i \in 1..Len(r.quot) |-> g]),
               rem |-> Array([i \in 1..Len(r.rem) |-> g])] : g \in Coef}

(***************************************************************************)
(* Scalar operators used to build operands.                                *)
(***************************************************************************)

\* operator + (static_poly<T, N> a, const U& b): if (N) return a += b;
\* otherwise the capacity-1 polynomial holding b.
scalar_add(p, s) ==
    IF Len(p) # 0 THEN Put(p, 0, At(p, 0) + s) ELSE static_poly_point(1, s)

\* operator - (static_poly<T, N> a, const U& b): if (N) return a -= b;
\* otherwise the capacity-1 polynomial holding -b.
scalar_sub(p, s) ==
    IF Len(p) # 0 THEN Put(p, 0, At(p, 0) - s) ELSE static_poly_point(1, 0 - s)

(***************************************************************************)
(* The compound assignments with a scalar and the operators built on them. *)
(***************************************************************************)

\* x / y rounding toward minus infinity.
floor_div(x, y) == IF y < 0 THEN (0 - x) \div (0 - y) ELSE x \div y

\* x / y for int: the quotient with the fractional part discarded.
trunc_div(x, y) ==
    IF (x < 0) = (y < 0) THEN Abs(x) \div Abs(y) ELSE 0 - (Abs(x) \div Abs(y))

\* operator +=: m_data[0] += value (static_assert(N): no capacity 0).
add_assign(p, value) == Put(p, 0, At(p, 0) + value)

\* operator -= subtracting value from every coefficient.
sub_assign_all(p, value) == Array([i \in 1..Len(p) |-> p[i] - value])

\* operator -=: m_data[0] -= value (static_assert(N): no capacity 0).
sub_assign(p, value) == Put(p, 0, At(p, 0) - value)

\* operator *= dropping the coefficients when value is 0.
mul_assign_shrink(p, value) ==
    IF value = 0 THEN <<>> ELSE Array([i \in 1..Len(p) |-> p[i] * value])

\* operator *=: for (T& i : m_data) i *= value
mul_assign(p, value) == Array([i \in 1..Len(p) |-> p[i] * value])

\* operator /=: for (T& i : m_data) i /= value
div_assign(p, value) == Array([i \in 1..Len(p) |-> trunc_div(p[i], value)])

\* operator %= for an integral T: i -= T(value * T(i / value))
mod_assign(p, value) ==
    Array([i \in 1..Len(p) |-> p[i] - value * trunc_div(p[i], value)])

\* operator * (static_poly<T, N> a, const U& b): return a *= b
scalar_mul(p, s) == mul_assign(p, s)

\* operator / (static_poly<T, N> a, const U& b): return a /= b
scalar_div(p, s) == div_assign(p, s)

\* operator % (static_poly<T, N> a, const U& b): return a %= b
scalar_mod(p, s) == mod_assign(p, s)

\* operator + (const U& a, static_poly<T, N> b): if (N) return b += a;
\* otherwise the capacity-1 polynomial holding a.
scalar_add_left(s, p) ==
    IF Len(p) # 0 THEN add_assign(p, s) ELSE static_poly_point(1, s)

\* operator * (const U& a, static_poly<T, N> b): return b *= a
scalar_mul_left(s, p) == mul_assign(p, s)

(***************************************************************************)
(* detail::mul and power<exp>.                                             *)
(***************************************************************************)

\* The loops with the inner bound one short: j < min(N - i, N2) - 1.
RECURSIVE mul_outer_fit_short(_, _, _, _)
mul_outer_fit_short(prod, x, y, i) ==
    IF i >= Len(x) THEN prod
    ELSE mul_outer_fit_short(
           mul_inner(prod, x, y, i, Min(Len(x) - i, Len(y)) - 1), x, y, i + 1)

RECURSIVE mul_outer_fit(_, _, _, _)
mul_outer_fit(prod, x, y, i) ==
    IF i >= Len(x) THEN prod
    ELSE mul_outer_fit(mul_inner(prod, x, y, i, Min(Len(x) - i, Len(y))),
                       x, y, i + 1)

\* detail::mul(a, b): the product in a's capacity N;
\* for (i < N) for (j < min(N - i, N2)) prod[i+j] += a[i] * b[j].
mul(x, y) ==
    IF ~to_bool(x) \/ ~to_bool(y)
    THEN zero_poly(Len(x))
    ELSE mul_outer_fit(zero_poly(Len(x)), x, y, 0)

\* while (ex >>= 1) { base = mul(base, base); if (ex & 1) result = mul(result, base); }
\* entered with ex already shifted.
RECURSIVE power_loop(_, _, _)
power_loop(result, base, ex) ==
    IF ex = 0 THEN result
    ELSE LET base2 == mul(base, base)
         IN  power_loop(IF ex % 2 = 1 THEN mul(result, base2) ELSE result,
                        base2, ex \div 2)

\* power<exp>(b): result{T{1}} and base{b} of capacity N*exp;
\* if (exp & 1) result = base; then the squaring loop.
power(exp, p) ==
    LET N      == Len(p) * exp
        result == static_poly_range(N, <<1>>)
        base   == static_poly_convert(N, p)
    IN  power_loop(IF exp % 2 = 1 THEN base ELSE result, base, exp \div 2)

(***************************************************************************)
(* The stream inserter of src/static_poly_io.hpp, for integer T.           *)
(***************************************************************************)

Digit(d) ==
    CASE d = 0 -> "0" [] d = 1 -> "1" [] d = 2 -> "2" [] d = 3 -> "3"
      [] d = 4 -> "4" [] d = 5 -> "5" [] d = 6 -> "6" [] d = 7 -> "7"
      [] d = 8 -> "8" [] d = 9 -> "9"

RECURSIVE NatStr(_)
NatStr(n) == IF n < 10 THEN Digit(n) ELSE NatStr(n \div 10) \o Digit(n % 10)

\* os << int
IntStr(n) == IF n < 0 THEN "-" \o NatStr(0 - n) ELSE NatStr(n)

\* os << xpow{i}
xpow(i) ==
    IF i = 1 THEN "x"
    ELSE IF i > 1 THEN "x^" \o IntStr(i)
    ELSE ""

\* is_zero for a non-floating T: n == T{0}
is_zero(n) == n = 0

\* isone for a non-floating T: n == T{1}
isone(n) == n = 1

\* ifnotone without the test for -1.
ifnotone_no_minus(val) == IF isone(val) THEN "" ELSE IntStr(val)

\* os << ifnotone(val)
ifnotone(val) ==
    IF isone(0 - val) THEN "-"
    ELSE IF isone(val) THEN ""
    ELSE IntStr(val)

\* is_negative(T t): t < T{0} && !is_zero(t)
is_negative(t) == t < 0 /\ ~is_zero(t)

\* for (--i; i > 0; --i) { ... }, entered with i already decremented.
RECURSIVE inserter_loop(_, _, _)
inserter_loop(os, poly, i) ==
    IF i <= 0 THEN os
    ELSE inserter_loop(
           IF is_negative(At(poly, i))
           THEN os \o " - " \o ifnotone(0 - At(poly, i)) \o xpow(i)
           ELSE IF ~is_zero(At(poly, i))
           THEN os \o " + " \o ifnotone(At(poly, i)) \o xpow(i)
           ELSE os,
           poly, i - 1)

\* operator << (std::ostream&, const static_poly<T, N>&): the text written.
inserter(poly) ==
    LET i == degree(poly)
    IN  IF i = 0 - 1 THEN "0"
        ELSE IF i = 0 THEN IntStr(At(poly, 0))
        ELSE LET head == ifnotone(At(poly, i)) \o xpow(i)
                 mid  == inserter_loop(head, poly, i - 1)
             IN  IF is_negative(At(poly, 0))
                 THEN mid \o " - " \o IntStr(0 - At(poly, 0))
                 ELSE IF At(poly, 0) # 0
                 THEN mid \o " + " \o IntStr(At(poly, 0))
                 ELSE mid

(***************************************************************************)
(* The predicates of src/static_poly_io.hpp for floating and composite     *)
(* coefficients.  A floating value is an integer here: 0 is zero, 1 and -1 *)
(* are values that are not normal or lie within 1e-11 of zero, 2 and -2    *)
(* are ordinary positive and negative values.  A complex number, a         *)
(* quaternion and an octonion are the tuples of their 2, 4, 8 components.  *)
(***************************************************************************)

\* is_zero for a floating T: !std::isnormal(n) || std::fabs(n) < 1e-11
is_zero_floating(n) == Abs(n) < 2

\* is_negative(T t) for a floating T: t < T{0} && !is_zero(t)
is_negative_floating(t) == t < 0 /\ ~is_zero_floating(t)

\* is_negative(smath::complex<T> ct), ct = <<real, imag.value>>
is_negative_complex(ct) ==
    \/ ct[1] < 0 /\ ~is_zero_floating(ct[1])
    \/ is_zero_floating(ct[1]) /\ ct[2] < 0 /\ ~is_zero_floating(ct[2])

\* find_if(vals, !is_zero): the first position holding a non-zero value,
\* Len(vals) + 1 for boost::end(vals).
RECURSIVE find_if_nonzero(_, _)
find_if_nonzero(vals, i) ==
    IF i > Len(vals) THEN i
    ELSE IF ~is_zero_floating(vals[i]) THEN i
    ELSE find_if_nonzero(vals, i + 1)

\* count_if(vals, val < T{0} && !is_zero(val))
count_if_negative(vals) ==
    Cardinality({i \in 1..Len(vals) : vals[i] < 0 /\ ~is_zero_floating(vals[i])})

\* count_if(vals, val > T{0} && !is_zero(val))
count_if_positive(vals) ==
    Cardinality({i \in 1..Len(vals) : vals[i] > 0 /\ ~is_zero_floating(vals[i])})

\* is_negative for a quaternion deciding by the first non-zero component only.
is_negative_quaternion_first(q) ==
    LET nonzero == find_if_nonzero(q, 1)
    IN  IF nonzero = Len(q) + 1 THEN FALSE ELSE q[nonzero] < 0

\* is_negative(boost::math::quaternion<T> q), q = the four R_components
is_negative_quaternion(q) ==
    LET nonzero == find_if_nonzero(q, 1)
    IN  IF nonzero = Len(q) + 1 THEN FALSE
        ELSE q[nonzero] < 0 /\ count_if_negative(q) >= count_if_positive(q)

\* is_negative(boost::math::octonion<T> q), q = the eight R_components
is_negative_octonion(q) ==
    LET nonzero == find_if_nonzero(q, 1)
    IN  IF nonzero = Len(q) + 1 THEN FALSE
        ELSE q[nonzero] < 0 /\ count_if_negative(q) >= count_if_positive(q)

(***************************************************************************)
(* The state machine: a program builds two polynomials and applies one     *)
(* operator to them.                                                       *)
(***************************************************************************)

Init ==
    /\ a \in Polys
    /\ b \in PolysB
    /\ op = "none"
    /\ out = <<>>

\* a * b with both revisions of operator *.  static_poly<T, -1> is no type:
\* two capacity-0 operands do not compile with the N1 + N2 - 1 revision.
Multiply ==
    /\ op = "none"
    /\ Len(a) + Len(b) >= 1
    /\ op' = "mul"
    /\ out' = [prod |-> poly_mul(a, b), prod_hpp |-> poly_mul_hpp(a, b)]
    /\ UNCHANGED <<a, b>>

\* (a / b, a % b) and the value b*(a/b) + (a % b) built from them, in a build
\* with the asserts (nd = FALSE) or without (nd = TRUE).
Divide ==
    /\ op = "none"
    /\ \E nd \in BOOLEAN :
         LET r == quotient_remainder(a, b, nd)
         IN  \E o \in (IF r.status = "ub" THEN UBOutcomes(r) ELSE {r}) :
               out' = [status |-> o.status, quot |-> o.quot, rem |-> o.rem,
                       back |-> IF o.status = "abort" THEN <<>>
                                ELSE poly_add(poly_mul(b, o.quot), o.rem)]
    /\ op' = "div"
    /\ UNCHANGED <<a, b>>

\* a + b and a - b
AddSub ==
    /\ op = "none"
    /\ out' = [sum |-> poly_add(a, b), diff |-> poly_sub(a, b)]
    /\ op' = "addsub"
    /\ UNCHANGED <<a, b>>

\* detail::mul(a, b) next to a * b.
MultiplyFit ==
    /\ op = "none"
    /\ Len(a) + Len(b) >= 1
    /\ out' = [fit |-> mul(a, b), full |-> poly_mul(a, b)]
    /\ op' = "mulfit"
    /\ UNCHANGED <<a, b>>

Next == Multiply \/ Divide \/ AddSub \/ MultiplyFit

Spec == Init /\ [][Next]_vars

(***************************************************************************)
(* Comparisons: a program builds polynomials and compares them with both   *)
(* revisions of operator ==.                                               *)
(***************************************************************************)

InitEq ==
    /\ a \in PolysE
    /\ b \in PolysEB
    /\ op = "none"
    /\ out = <<>>

\* a == a, a == b, b == a, b == c, a == c for a third polynomial c.
Compare ==
    /\ op = "none"
    /\ \E c \in PolysEB :
         out' = [c |-> c,
                 ex  |-> [aa |-> operator_eq(a, a), ab |-> operator_eq(a, b),
                          ba |-> operator_eq(b, a), bc |-> operator_eq(b, c),
                          ac |-> operator_eq(a, c)],
                 hpp |-> [aa |-> operator_eq_hpp(a, a), ab |-> operator_eq_hpp(a, b),
                          ba |-> operator_eq_hpp(b, a), bc |-> operator_eq_hpp(b, c),
                          ac |-> operator_eq_hpp(a, c)]]
    /\ op' = "eq"
    /\ UNCHANGED <<a, b>>

\* static_poly<T, M> wide{a}; a == wide; wide == a; for a capacity M >= N.
CompareWider ==
    /\ op = "none"
    /\ \E M \in Len(a)..(Len(a) + ExtraCap) :
         LET wide == static_poly_convert(M, a)
         IN  out' = [wide |-> wide,
                     ex  |-> [pw |-> operator_eq(a, wide), wp |-> operator_eq(wide, a)],
                     hpp |-> [pw |-> operator_eq_hpp(a, wide),
                              wp |-> operator_eq_hpp(wide, a)]]
    /\ op' = "eqwide"
    /\ UNCHANGED <<a, b>>

\* a < b, b < a, a == b, a <= b, a >= b, a > b.
Order ==
    /\ op = "none"
    /\ out' = [lt_ab |-> operator_lt(a, b), lt_ba |-> operator_lt(b, a),
               eq_ab |-> operator_eq(a, b), le_ab |-> operator_le(a, b),
               ge_ab |-> operator_ge(a, b), gt_ab |-> operator_gt(a, b)]
    /\ op' = "order"
    /\ UNCHANGED <<a, b>>

NextEq == Compare \/ CompareWider \/ Order

SpecEq == InitEq /\ [][NextEq]_vars

(***************************************************************************)
(* power<exp>, and the division of x^n - 1 by x - 1 of example.cpp's main. *)
(***************************************************************************)

InitPower ==
    /\ a \in PolysB
    /\ b = <<>>
    /\ op = "none"
    /\ out = <<>>

\* power<e>(a)
Raise ==
    /\ op = "none"
    /\ \E e \in 0..MaxExp : out' = [e |-> e, pow |-> power(e, a)]
    /\ op' = "power"
    /\ UNCHANGED <<a, b>>

\* power<e1+e2>(a) == power<e1>(a) * power<e2>(a).  The product of two
\* capacity-0 polynomials has no type (capacity -1) and does not compile.
PowerLaw ==
    /\ op = "none"
    /\ \E e1, e2 \in 0..MaxExp :
         /\ e1 + e2 <= MaxExp
         /\ Len(a) * (e1 + e2) >= 1
         /\ LET whole == power(e1 + e2, a)
                prod  == poly_mul(power(e1, a), power(e2, a))
            IN  out' = [e1 |-> e1, e2 |-> e2, whole |-> whole, prod |-> prod,
                        equal |-> operator_eq(whole, prod)]
    /\ op' = "powerlaw"
    /\ UNCHANGED <<a, b>>

\* With x{0,1}: (power<n>(x) - 1) divided by phi1 = x - 1.
Cyclotomic ==
    /\ op = "none"
    /\ a = <<0, 1>>
    /\ \E n \in 1..MaxExp, nd \in BOOLEAN :
         LET dividend == scalar_sub(power(n, a), 1)
             divisor  == scalar_sub(a, 1)
             r        == quotient_remainder(dividend, divisor, nd)
         IN  out' = [n |-> n, dividend |-> dividend, divisor |-> divisor,
                     status |-> r.status, quot |-> r.quot, rem |-> r.rem]
    /\ op' = "cyclotomic"
    /\ UNCHANGED <<a, b>>

NextPower == Raise \/ PowerLaw \/ Cyclotomic

SpecPower == InitPower /\ [][NextPower]_vars

(***************************************************************************)
(* power<exp> statement by statement.  out holds the locals of power():    *)
(* ex, result and base, and the operands x, y of the last detail::mul      *)
(* executed (<<>> before the first).  op is the position in the function.  *)
(***************************************************************************)

\* static_poly<T, N*exp> result{T{1}}, base{b}; int ex = exp;
\* if (exp & 1) result = base;
PowerEnter ==
    /\ op = "none"
    /\ \E e \in 0..MaxExp :
         LET N      == Len(a) * e
             result == static_poly_range(N, <<1>>)
             base   == static_poly_convert(N, a)
         IN  out' = [e |-> e, ex |-> e,
                     result |-> IF e % 2 = 1 THEN base ELSE result,
                     base |-> base, x |-> <<>>, y |-> <<>>]
    /\ op' = "powertest"
    /\ UNCHANGED <<a, b>>

\* The loop test written while (ex) with the shift at the end of the body.
PowerTest_late_shift ==
    /\ op = "powertest"
    /\ out' = [out EXCEPT !.ex = out.ex \div 2]
    /\ op' = IF out.ex # 0 THEN "powersquare" ELSE "powerdone"
    /\ UNCHANGED <<a, b>>

\* while (ex >>= 1)
PowerTest ==
    /\ op = "powertest"
    /\ out' = [out EXCEPT !.ex = out.ex \div 2]
    /\ op' = IF out.ex \div 2 # 0 THEN "powersquare" ELSE "powerdone"
    /\ UNCHANGED <<a, b>>

\* base = detail::mul(base, base); then the test if (ex & 1)
PowerSquare ==
    /\ op = "powersquare"
    /\ out' = [out EXCEPT !.base = mul(out.base, out.base),
                          !.x = out.base, !.y = out.base]
    /\ op' = IF out.ex % 2 = 1 THEN "powermultiply" ELSE "powertest"
    /\ UNCHANGED <<a, b>>

\* result = detail::mul(result, base)
PowerMultiply ==
    /\ op = "powermultiply"
    /\ out' = [out EXCEPT !.result = mul(out.result, out.base),
                          !.x = out.result, !.y = out.base]
    /\ op' = "powertest"
    /\ UNCHANGED <<a, b>>

NextPowerSteps == PowerEnter \/ PowerTest \/ PowerSquare \/ PowerMultiply

SpecPowerSteps == InitPower /\ [][NextPowerSteps]_vars

(***************************************************************************)
(* Operations on one polynomial: the stream inserter.                      *)
(***************************************************************************)

InitUnary ==
    /\ a \in PolysU
    /\ b = <<>>
    /\ op = "none"
    /\ out = <<>>

\* cout << a
Output ==
    /\ op = "none"
    /\ out' = [text |-> inserter(a)]
    /\ op' = "output"
    /\ UNCHANGED <<a, b>>

\* a.degree(), bool(a) and a.size()
Inspect ==
    /\ op = "none"
    /\ out' = [deg |-> degree(a), truth |-> to_bool(a), sz |-> size(a)]
    /\ op' = "inspect"
    /\ UNCHANGED <<a, b>>

\* static_poly<T, N> conv{a}: the explicit change of capacity.
Convert ==
    /\ op = "none"
    /\ \E N \in 0..(Len(a) + ExtraCap) :
         out' = [N |-> N, conv |-> static_poly_convert(N, a)]
    /\ op' = "convert"
    /\ UNCHANGED <<a, b>>

\* a[i] read, for an index from -1 to N.
Get ==
    /\ op = "none"
    /\ \E i \in (0 - 1)..Len(a) : \E o \in subscript(a, i) :
         out' = [i |-> i, status |-> o.status, value |-> o.value, old |-> a]
    /\ op' = "get"
    /\ UNCHANGED <<a, b>>

\* a[i] = v, for an index from -1 to N.
Set ==
    /\ op = "none"
    /\ \E i \in (0 - 1)..Len(a), v \in Coef : \E o \in subscript_store(a, i, v) :
         /\ out' = [i |-> i, status |-> o.status, value |-> o.value, old |-> a]
         /\ a' = o.p
    /\ op' = "set"
    /\ UNCHANGED b

\* a(z) for a polynomial of capacity N >= 1 (an array of length 0 does not
\* bind to the array overload).
Evaluate ==
    /\ op = "none"
    /\ Len(a) >= 1
    /\ \E z \in Scalars : out' = [z |-> z, value |-> call_operator(a, z)]
    /\ op' = "evaluate"
    /\ UNCHANGED <<a, b>>

NextUnary == Output \/ Inspect \/ Convert \/ Get \/ Set \/ Evaluate

SpecUnary == InitUnary /\ [][NextUnary]_vars

(***************************************************************************)
(* Operators on a polynomial and a scalar.                                 *)
(***************************************************************************)

\* Coefficients wide enough for quotients and remainders to differ.
CoefS == (0 - (2 * MaxScalar + 1)) .. (2 * MaxScalar + 1)

PolysS == UNION {[1..N -> CoefS] : N \in 0..MaxCapB}

InitScalar ==
    /\ a \in PolysS
    /\ b = <<>>
    /\ op = "none"
    /\ out = <<>>

\* a / r, a % r and r*(a/r) + (a % r) for a scalar r # 0.
ScalarDivMod ==
    /\ op = "none"
    /\ \E r \in Scalars \ {0} :
         LET quot == scalar_div(a, r)
             rem  == scalar_mod(a, r)
             back == poly_add(scalar_mul_left(r, quot), rem)
         IN  out' = [r |-> r, quot |-> quot, rem |-> rem, back |-> back,
                     equal |-> operator_eq(a, back)]
    /\ op' = "scalardivmod"
    /\ UNCHANGED <<a, b>>

\* a += s, a -= s (each on a copy of a), a + s, a - s and s + a; the
\* compound forms do not compile for capacity 0.
ScalarAddSub ==
    /\ op = "none"
    /\ Len(a) >= 1
    /\ \E s \in Scalars :
         out' = [s |-> s,
                 pluseq |-> add_assign(a, s), minuseq |-> sub_assign(a, s),
                 plus |-> scalar_add(a, s), minus |-> scalar_sub(a, s),
                 splus |-> scalar_add_left(s, a)]
    /\ op' = "scalaraddsub"
    /\ UNCHANGED <<a, b>>

NextScalar == ScalarDivMod \/ ScalarAddSub

SpecScalar == InitScalar /\ [][NextScalar]_vars

(***************************************************************************)
(* One polynomial object p (the variable a) that a program keeps and       *)
(* changes in place.  out.cap0 is the capacity p was created with.  The    *)
(* coefficients stay within -MaxScalar .. MaxScalar.                       *)
(***************************************************************************)

Bounded(p) == \A i \in 1..Len(p) : Abs(p[i]) <= MaxScalar

InitInPlace ==
    /\ a \in PolysB
    /\ b = <<>>
    /\ op = "none"
    /\ out = [cap0 |-> Len(a), made |-> 0]

\* p += s
AddAssign ==
    /\ Len(a) >= 1
    /\ \E s \in Scalars : a' = add_assign(a, s)
    /\ Bounded(a')
    /\ op' = "addassign"
    /\ UNCHANGED <<b, out>>

\* p -= s
SubAssign ==
    /\ Len(a) >= 1
    /\ \E s \in Scalars : a' = sub_assign(a, s)
    /\ Bounded(a')
    /\ op' = "subassign"
    /\ UNCHANGED <<b, out>>

\* p *= s
MulAssign ==
    /\ \E s \in Scalars : a' = mul_assign(a, s)
    /\ Bounded(a')
    /\ op' = "mulassign"
    /\ UNCHANGED <<b, out>>

\* p /= r
DivAssign ==
    /\ \E r \in Scalars \ {0} : a' = div_assign(a, r)
    /\ op' = "divassign"
    /\ UNCHANGED <<b, out>>

\* p %= r
ModAssign ==
    /\ \E r \in Scalars \ {0} : a' = mod_assign(a, r)
    /\ op' = "modassign"
    /\ UNCHANGED <<b, out>>

\* p[i] = v with 0 <= i < N
Store ==
    /\ \E i \in 0..(Len(a) - 1), v \in Coef : a' = Put(a, i, v)
    /\ op' = "store"
    /\ UNCHANGED <<b, out>>

\* p * p, p + static_poly<T, N + 1>{} and the like: a new value whose
\* capacity out.made differs from p's; p is passed by const reference.
Widen ==
    /\ Len(a) >= 1
    /\ \E w \in {poly_mul(a, a), poly_add(a, zero_poly(Len(a) + 1))} :
         out' = [out EXCEPT !.made = size(w)]
    /\ op' = "widen"
    /\ UNCHANGED <<a, b>>

NextInPlace ==
    \/ AddAssign \/ SubAssign \/ MulAssign \/ DivAssign \/ ModAssign
    \/ Store \/ Widen

SpecInPlace == InitInPlace /\ [][NextInPlace]_vars

(***************************************************************************)
(* quotient_remainder(a, b) and detail::division statement by statement.   *)
(* out holds the locals of detail::division: m, n, k, q, u, and the list   *)
(* ks of the values of k the steps executed so far ran with.  op is the    *)
(* position: "divloop" before a step, "divreturn" at a return statement,   *)
(* "divdone" after it, "divabort" after a failed assert, "divub" when the  *)
(* function would index with degree -1, "divcrash" when a store outside q  *)
(* stopped the run.                                                        *)
(***************************************************************************)

\* The entry of quotient_remainder down to the loop of detail::division.
DivEnter ==
    /\ op = "none"
    /\ \E nd \in BOOLEAN :
         LET m  == degree(a)
             n  == degree(b)
             N3 == QuotCap(Len(a), Len(b))
             loc(q, u) == [nd |-> nd, m |-> m, n |-> n, k |-> m - n,
                           q |-> q, u |-> u, ks |-> <<>>]
         IN  IF ~nd /\ ~to_bool(b)
             THEN op' = "divabort" /\ out' = loc(<<>>, <<>>)
             ELSE IF m < n
             THEN op' = "divreturn" /\ out' = loc(zero_poly(N3), a)
             ELSE IF ~nd /\ ~(Len(b) <= Len(a) /\ to_bool(b) /\ to_bool(a))
             THEN op' = "divabort" /\ out' = loc(<<>>, <<>>)
             ELSE IF n < 0
             THEN op' = "divub" /\ out' = loc(zero_poly(N3), a)
             ELSE op' = "divloop" /\ out' = loc(zero_poly(N3), a)
    /\ UNCHANGED <<a, b>>

\* do division_impl(q, u, v, n, k); while (k--);  One pass: the step, then
\* the test of k and its decrement.  The step begins with the store q[k];
\* when k is outside q the store is undefined: it lands outside q and the
\* pass goes on, or the run stops there ("divcrash").
DivStep ==
    /\ op = "divloop"
    /\ \E crash \in (IF out.k >= Len(out.q) THEN BOOLEAN ELSE {FALSE}) :
         IF crash
         THEN op' = "divcrash" /\ out' = out
         ELSE /\ LET s == division_impl(out.q, out.u, b, out.n, out.k)
                 IN  out' = [out EXCEPT !.q = s.q, !.u = s.u, !.k = out.k - 1,
                                        !.ks = Append(out.ks, out.k)]
              /\ op' = IF out.k # 0 THEN "divloop" ELSE "divreturn"
    /\ UNCHANGED <<a, b>>

\* return std::make_pair(q, static_poly<T, std::min(N1, N2)>(u))
DivReturn ==
    /\ op = "divreturn"
    /\ out' = [out EXCEPT !.u = static_poly_convert(RemCap(Len(a), Len(b)), out.u)]
    /\ op' = "divdone"
    /\ UNCHANGED <<a, b>>

NextDivSteps == DivEnter \/ DivStep \/ DivReturn

\* A call that has started runs on: the program is sequential and no step
\* waits for anything.
SpecDivSteps == InitEq /\ [][NextDivSteps]_vars /\ WF_vars(NextDivSteps)

(***************************************************************************)
(* is_negative on one composite coefficient value (the variable a).        *)
(***************************************************************************)

FloatVals == {0 - 2, 0 - 1, 0, 1, 2}

\* The eight components of an octonion leave out the value 1, which every
\* test treats as it treats 0 and -1.
FloatValsO == {0 - 2, 0 - 1, 0, 2}

Composites ==
    [1..2 -> FloatVals] \cup [1..4 -> FloatVals] \cup [1..8 -> FloatValsO]

InitComposite ==
    /\ a \in Composites
    /\ b = <<>>
    /\ op = "none"
    /\ out = <<>>

\* is_negative(v), the overload chosen by v's type.
IsNegative ==
    /\ op = "none"
    /\ out' = [neg |-> CASE Len(a) = 2 -> is_negative_complex(a)
                         [] Len(a) = 4 -> is_negative_quaternion(a)
                         [] Len(a) = 8 -> is_negative_octonion(a)]
    /\ op' = "isnegative"
    /\ UNCHANGED <<a, b>>

NextComposite == IsNegative

SpecComposite == InitComposite /\ [][NextComposite]_vars

(***************************************************************************)
(* The properties.                                                         *)
(***************************************************************************)

AllZero(p) == \A i \in 1..Len(p) : p[i] = 0

\* C1: for every dividend a and non-zero divisor b, quotient and remainder
\* satisfy a == b*(a/b) + (a % b).  Stated for the calls that return a
\* quotient and a remainder.
C1_DivisionIdentity ==
    (op = "div" /\ to_bool(b) /\ out.status = "ok") => operator_eq(a, out.back)

\* x^(n-1) + ... + x + 1 in capacity n.
AllOnes(n) == Array([i \in 1..n |-> 1])

\* C2: for every n >= 1, (x^n - 1) divided by x - 1 gives the quotient
\* x^(n-1) + ... + x + 1 and the zero polynomial as remainder.
C2_CyclotomicDivision ==
    op = "cyclotomic" =>
        /\ out.status = "ok"
        /\ operator_eq(out.quot, AllOnes(out.n))
        /\ AllZero(out.rem)

\* Equal degrees and equal coefficients at every index 0 .. degree.
SameUpToDegree(x, y) ==
    /\ degree(x) = degree(y)
    /\ \A i \in 0..degree(x) : At(x, i) = At(y, i)

\* C3: a == b returns true iff the degrees are equal and a[i] == b[i] for
\* every i from 0 to the degree, the leading coefficient included; stated
\* for operator == of both revisions of the header.
C3_EqualIffSameUpToDegree ==
    op = "eq" =>
        /\ out.ex.ab <=> SameUpToDegree(a, b)
        /\ out.hpp.ab <=> SameUpToDegree(a, b)

\* C4: operator == is reflexive, symmetric and transitive over mixed
\* capacities, and the zero-extended copy of p in a capacity M >= p.size()
\* compares equal to p; stated for both revisions of the header.
C4_EqualityIsEquivalence ==
    /\ op = "eq" =>
         \A r \in {out.ex, out.hpp} :
            /\ r.aa
            /\ r.ab => r.ba
            /\ (r.ab /\ r.bc) => r.ac
    /\ op = "eqwide" =>
         \A r \in {out.ex, out.hpp} : r.pw /\ r.wp

\* Three polynomials of three different capacities, a == b and b == c.
C4_Witness ==
    /\ op = "eq"
    /\ out.ex.ab /\ out.ex.bc /\ out.hpp.ab /\ out.hpp.bc
    /\ degree(a) = 1
    /\ Len(a) = 3 /\ Len(b) = 2 /\ Len(out.c) = 2 /\ At(out.c, 0) # 0

\* C5: for non-zero a and b, degree(a*b) = degree(a) + degree(b); and the
\* degree of an all-zero polynomial is -1.
C5_ProductDegree ==
    /\ (op = "mul" /\ to_bool(a) /\ to_bool(b)) =>
           degree(out.prod) = degree(a) + degree(b)
    /\ \A p \in {a, b} \cup (IF op = "mul" THEN {out.prod} ELSE {}) :
           AllZero(p) => degree(p) = 0 - 1

\* A product of two polynomials with coefficients to spare above the degree.
C5_Witness ==
    /\ op = "mul"
    /\ degree(a) = 1 /\ Len(a) = 3
    /\ degree(b) = 1
    /\ degree(out.prod) = 2

\* C6: power<e1+e2>(p) == power<e1>(p) * power<e2>(p) for all e1, e2 >= 0.
C6_PowerAdditive == op = "powerlaw" => out.equal

\* The product of e copies of p with operator *, the empty product being
\* the constant polynomial 1.
RECURSIVE RepeatedProduct(_, _)
RepeatedProduct(p, e) ==
    IF e = 0 THEN <<1>> ELSE poly_mul(RepeatedProduct(p, e - 1), p)

\* C7: power<e>(p) equals the product of e copies of p, and the constant
\* polynomial 1 (degree 0) for e = 0.
C7_PowerIsRepeatedProduct ==
    (op = "power" /\ Len(a) >= 1) =>
        /\ operator_eq(out.pow, RepeatedProduct(a, out.e))
        /\ out.e = 0 => degree(out.pow) = 0

\* C8: a*b has capacity exactly capA + capB - 1; stated for operator * of
\* both revisions of the header.
C8_ProductCapacity ==
    op = "mul" =>
        /\ Len(out.prod) = Len(a) + Len(b) - 1
        /\ Len(out.prod_hpp) = Len(a) + Len(b) - 1

\* The sum of x[i]*y[k-i] over the i from lo up with both indices in range.
RECURSIVE ConvolutionSum(_, _, _, _)
ConvolutionSum(x, y, k, lo) ==
    IF lo > k \/ lo >= Len(x) THEN 0
    ELSE (IF k - lo < Len(y) THEN At(x, lo) * At(y, k - lo) ELSE 0)
         + ConvolutionSum(x, y, k, lo + 1)

\* C9: every coefficient k of a*b is the sum of a[i]*b[j] over i + j = k,
\* the short-circuit for a zero operand included; and
\* (x^2 + 1)*(x - 1) = x^3 - x^2 + x - 1.
C9_ProductIsConvolution ==
    op = "mul" =>
        /\ \A k \in 0..(Len(a) + Len(b) - 2) :
              At(out.prod, k) = ConvolutionSum(a, b, k, 0)
        /\ (a = <<1, 0, 1>> /\ b = <<0 - 1, 1>>) => out.prod = <<0 - 1, 1, 0 - 1, 1>>

\* The product of the README: (x^2 + 1)*(x - 1).
C9_Witness ==
    /\ op = "mul"
    /\ a = <<1, 0, 1>> /\ b = <<0 - 1, 1>>
    /\ out.prod = <<0 - 1, 1, 0 - 1, 1>>

\* The monomial |c| x^k: a magnitude of 1 is omitted before x.
MonomialText(c, k) ==
    (IF Abs(c) = 1 /\ k >= 1 THEN "" ELSE NatStr(Abs(c)))
    \o (IF k = 0 THEN "" ELSE IF k = 1 THEN "x" ELSE "x^" \o NatStr(k))

\* The non-zero monomials of p from degree k down, the sign of each folded
\* into what joins it to the text before it.
RECURSIVE CanonicalFrom(_, _, _)
CanonicalFrom(p, k, first) ==
    IF k < 0 THEN ""
    ELSE IF At(p, k) = 0 THEN CanonicalFrom(p, k - 1, first)
    ELSE (IF first THEN (IF At(p, k) < 0 THEN "-" ELSE "")
          ELSE (IF At(p, k) < 0 THEN " - " ELSE " + "))
         \o MonomialText(At(p, k), k)
         \o CanonicalFrom(p, k - 1, FALSE)

Canonical(p) == IF AllZero(p) THEN "0" ELSE CanonicalFrom(p, Len(p) - 1, TRUE)

\* C10: the inserter writes the canonical string: "0" for the zero
\* polynomial, else the non-zero monomials in descending degree, 1 omitted
\* before x^k, a leading -1 as "-", later terms joined by " + " or " - ";
\* {1,0,1} gives "x^2 + 1", {-1,1} gives "x - 1", their product
\* "x^3 - x^2 + x - 1".
C10_InserterCanonical ==
    op = "output" =>
        /\ out.text = Canonical(a)
        /\ a = <<1, 0, 1>> => out.text = "x^2 + 1"
        /\ a = <<0 - 1, 1>> => out.text = "x - 1"
        /\ a = poly_mul(<<1, 0, 1>>, <<0 - 1, 1>>) => out.text = "x^3 - x^2 + x - 1"

\* The product of the README written out.
C10_Witness ==
    /\ op = "output"
    /\ a = <<0 - 1, 1, 0 - 1, 1>>
    /\ out.text = "x^3 - x^2 + x - 1"

\* C11: for an integer polynomial p and a scalar r # 0, p == r*(p/r) + (p % r)
\* coefficient by coefficient, and p/r is the truncated quotient of each
\* coefficient: r*(p/r)[i] is no larger in magnitude than p[i] and the
\* remainder is smaller in magnitude than r.
C11_ScalarDivMod ==
    op = "scalardivmod" =>
      /\ out.equal
      /\ Len(out.quot) = Len(a) /\ Len(out.rem) = Len(a)
      /\ \A i \in 1..Len(a) :
           /\ a[i] = out.r * out.quot[i] + out.rem[i]
           /\ Abs(out.r * out.quot[i]) <= Abs(a[i])
           /\ Abs(out.rem[i]) < Abs(out.r)

\* {-5,7} with r = 2: quotient {-2,3} (toward zero), remainder {-1,1}.
C11_Witness ==
    /\ op = "scalardivmod" /\ a = <<0 - 5, 7>> /\ out.r = 2
    /\ out.quot = <<0 - 2, 3>> /\ out.rem = <<0 - 1, 1>>

\* C12: when degree(dividend) < degree(divisor) and the divisor is not zero,
\* the quotient is the zero polynomial (capacity >= 1) and the remainder, of
\* capacity min(capA, capB), equals the dividend: it holds the dividend's
\* coefficients and every coefficient it leaves out is zero.
C12_LowDegreeDividend ==
    (op = "div" /\ to_bool(b) /\ degree(a) < degree(b)) =>
      /\ out.status = "ok"
      /\ Len(out.quot) >= 1 /\ AllZero(out.quot)
      /\ Len(out.rem) = Min(Len(a), Len(b))
      /\ \A i \in 1..Len(out.rem) : out.rem[i] = a[i]
      /\ \A i \in 1..Len(a) : i > Len(out.rem) => a[i] = 0
      /\ operator_eq(out.rem, a)

\* A non-zero dividend of capacity 3 cut to the divisor's capacity 2.
C12_Witness ==
    /\ op = "div" /\ to_bool(a) /\ degree(a) < degree(b)
    /\ Len(a) = 3 /\ Len(b) = 2 /\ out.rem = <<At(a, 0), 0>>

\* C13: the capacity of an object never changes: after any sequence of
\* +=, -=, *=, /=, %= and coefficient writes, and after operators that
\* return a value of another capacity, size() is the capacity the object
\* was created with.
C13_CapacityImmutable == size(a) = out.cap0

\* An object changed in place after an operator made a value of capacity 3
\* from it.
C13_Witness ==
    op = "addassign" /\ a = <<2, 0 - 2>> /\ out.made = 3

\* x sorts before y: lower degree, or the same degree and x[k] < y[k] at the
\* highest index k where they differ.
Less(x, y) ==
    \/ degree(x) < degree(y)
    \/ /\ degree(x) = degree(y)
       /\ \E k \in 0..degree(x) :
            /\ At(x, k) < At(y, k)
            /\ \A j \in (k + 1)..degree(x) : At(x, j) = At(y, j)

\* C14: a < b iff a's degree is lower, or the degrees are equal and a[k] < b[k]
\* at the highest index k where they differ; exactly one of a < b, a == b,
\* b < a holds; a <= b iff not b < a, a > b iff b < a, a >= b iff not a < b.
C14_TotalOrder ==
    op = "order" =>
      /\ out.lt_ab <=> Less(a, b)
      /\ out.lt_ba <=> Less(b, a)
      /\ \/ out.lt_ab /\ ~out.eq_ab /\ ~out.lt_ba
         \/ ~out.lt_ab /\ out.eq_ab /\ ~out.lt_ba
         \/ ~out.lt_ab /\ ~out.eq_ab /\ out.lt_ba
      /\ out.le_ab <=> ~out.lt_ba
      /\ out.gt_ab <=> out.lt_ba
      /\ out.ge_ab <=> ~out.lt_ab

\* Equal degrees and leading coefficients in different capacities: decided
\* at the constant term.
C14_Witness ==
    /\ op = "order" /\ Len(a) = 3 /\ Len(b) = 2
    /\ degree(a) = 1 /\ degree(b) = 1 /\ At(a, 1) = At(b, 1)
    /\ At(a, 0) < At(b, 0) /\ out.lt_ab /\ ~out.ge_ab

\* C15: degree() is the largest index below the capacity with a non-zero
\* coefficient, or -1 when every coefficient is zero (capacity 0 included);
\* the conversion to bool is true exactly when degree() >= 0.
C15_DegreeAndBool ==
    op = "inspect" =>
      /\ out.deg \in (0 - 1)..(Len(a) - 1)
      /\ out.deg >= 0 => At(a, out.deg) # 0
      /\ \A i \in (out.deg + 1)..(Len(a) - 1) : At(a, i) = 0
      /\ (out.deg = 0 - 1) <=> AllZero(a)
      /\ out.truth <=> (out.deg >= 0)

\* A non-zero polynomial whose top coefficient is the only non-zero one.
C15_Witness ==
    /\ op = "inspect" /\ Len(a) = 3 /\ At(a, 0) = 0 /\ At(a, 1) = 0
    /\ out.deg = 2 /\ out.truth

\* Coefficient i of p, 0 at an index beyond p's capacity.
CoefAt(p, i) == IF i < Len(p) THEN At(p, i) ELSE 0

\* C16: a + b and a - b have capacity max(capA, capB) and coefficient i equal
\* to a[i] + b[i], a[i] - b[i], a coefficient beyond an operand's capacity
\* counting as 0.
C16_AddSubtract ==
    op = "addsub" =>
      /\ Len(out.sum) = Max(Len(a), Len(b))
      /\ Len(out.diff) = Max(Len(a), Len(b))
      /\ \A i \in 0..(Max(Len(a), Len(b)) - 1) :
           /\ At(out.sum, i) = CoefAt(a, i) + CoefAt(b, i)
           /\ At(out.diff, i) = CoefAt(a, i) - CoefAt(b, i)

\* The right operand is the longer one and its top coefficient is not zero.
C16_Witness ==
    /\ op = "addsub" /\ Len(a) = 1 /\ Len(b) = 2 /\ At(a, 0) # 0 /\ At(b, 1) # 0
    /\ out.diff = <<At(a, 0) - At(b, 0), 0 - At(b, 1)>>

\* r is p with only coefficient 0 changed, to c0.
OnlyConstantChanged(p, r, c0) ==
    /\ Len(r) = Len(p)
    /\ At(r, 0) = c0
    /\ \A i \in 1..(Len(p) - 1) : At(r, i) = At(p, i)

\* C17: on a polynomial of capacity >= 1, p += s, p + s and s + p change only
\* coefficient 0, to p[0] + s, and p -= s and p - s change only coefficient 0,
\* to p[0] - s.
C17_ScalarAddSubFrame ==
    op = "scalaraddsub" =>
      /\ OnlyConstantChanged(a, out.pluseq, At(a, 0) + out.s)
      /\ OnlyConstantChanged(a, out.plus, At(a, 0) + out.s)
      /\ OnlyConstantChanged(a, out.splus, At(a, 0) + out.s)
      /\ OnlyConstantChanged(a, out.minuseq, At(a, 0) - out.s)
      /\ OnlyConstantChanged(a, out.minus, At(a, 0) - out.s)

\* A non-zero scalar and a polynomial with a non-zero coefficient above
\* index 0.
C17_Witness ==
    /\ op = "scalaraddsub" /\ Len(a) = 2 /\ At(a, 1) # 0 /\ out.s = 2
    /\ out.minuseq = <<At(a, 0) - 2, At(a, 1)>>
    /\ out.splus = <<At(a, 0) + 2, At(a, 1)>>

\* C18: converting p of capacity N1 to capacity N gives q with q[i] = p[i] for
\* i < min(N, N1) and q[i] = 0 for N1 <= i < N.
C18_ExplicitConversion ==
    op = "convert" =>
      /\ Len(out.conv) = out.N
      /\ \A i \in 0..(Min(out.N, Len(a)) - 1) : At(out.conv, i) = At(a, i)
      /\ \A i \in Len(a)..(out.N - 1) : At(out.conv, i) = 0

\* The capacity-4 product x^3 - x^2 + x - 1 converted to capacity 3.
C18_Witness ==
    /\ op = "convert" /\ a = <<0 - 1, 1, 0 - 1, 1>> /\ out.N = 3
    /\ out.conv = <<0 - 1, 1, 0 - 1>>

\* C19: a coefficient read or write with an index outside 0 <= i < capacity
\* fails with IndexError instead of returning or modifying a value.
C19_IndexError ==
    (op \in {"get", "set"} /\ ~(0 <= out.i /\ out.i < Len(a))) =>
      out.status = "IndexError"

\* C20: quotient_remainder (and so polynomial / and %) called with the zero
\* polynomial as divisor fails at the divisor check, before any coefficient
\* of a quotient or remainder is computed, and returns no pair.
C20_ZeroDivisorFails ==
    (op = "div" /\ ~to_bool(b)) =>
      /\ out.status = "abort"
      /\ out.quot = <<>> /\ out.rem = <<>>

\* z^i by repeated multiplication.
RECURSIVE IntPow(_, _)
IntPow(z, i) == IF i = 0 THEN 1 ELSE z * IntPow(z, i - 1)

\* p[0] + p[1]*z + ... + p[k]*z^k
RECURSIVE PowerSum(_, _, _)
PowerSum(p, z, k) ==
    IF k < 0 THEN 0 ELSE At(p, k) * IntPow(z, k) + PowerSum(p, z, k - 1)

\* C21: for a polynomial p of capacity N >= 1 and an integer point z, the value
\* p(z) of the Horner loop is the sum over i of p[i] * z^i.
C21_HornerEvaluation ==
    op = "evaluate" => out.value = PowerSum(a, out.z, Len(a) - 1)

\* x^3 - x^2 + x - 1 at z = -2: -8 - 4 - 2 - 1.
C21_Witness ==
    /\ op = "evaluate" /\ a = <<0 - 1, 1, 0 - 1, 1>> /\ out.z = 0 - 2
    /\ out.value = 0 - 15

\* C22: detail::mul(a, b) has a's capacity N and holds the coefficients
\* 0 .. N-1 of the full product a*b; the product's coefficients at an index
\* >= N are dropped; mul(a, b) == a*b whenever degree(a) + degree(b) < N.
C22_SizePreservingMultiply ==
    op = "mulfit" =>
      /\ Len(out.fit) = Len(a)
      /\ \A c \in 0..(Len(a) - 1) : At(out.fit, c) = CoefAt(out.full, c)
      /\ degree(a) + degree(b) < Len(a) => operator_eq(out.fit, out.full)

\* A product of degree 2 in capacity 2: its leading coefficient is dropped.
C22_Witness ==
    /\ op = "mulfit" /\ Len(a) = 2 /\ degree(a) = 1 /\ degree(b) = 1
    /\ degree(out.full) = 2 /\ ~operator_eq(out.fit, out.full)

\* C23: in power<e>(p), e >= 1, p of capacity N, every detail::mul of the
\* squaring loop has a true product of degree < N*e: the full product of its
\* operands has no non-zero coefficient at an index >= N*e, so the multiply
\* in capacity N*e drops nothing; and the function returns power<e>(p).
C23_PowerHeadroom ==
    /\ (op \in {"powertest", "powersquare", "powermultiply", "powerdone"}
          /\ out.e >= 1 /\ Len(out.x) >= 1) =>
         LET full == poly_mul(out.x, out.y)
         IN  /\ degree(full) < Len(a) * out.e
             /\ \A c \in (Len(a) * out.e)..(Len(full) - 1) : At(full, c) = 0
             /\ operator_eq(mul(out.x, out.y), full)
    /\ op = "powerdone" => out.result = power(out.e, a)

\* power<3>(x + 1): result = result * base with base = (x + 1)^2, a product
\* of degree 3 in capacity 6.
C23_Witness ==
    /\ op = "powertest" /\ out.e = 3 /\ a = <<1, 1>>
    /\ out.x = <<1, 1, 0, 0, 0, 0>> /\ out.y = <<1, 2, 1, 0, 0, 0>>
    /\ out.result = <<1, 3, 3, 1, 0, 0>>

\* L^(m-n+1) * a == q*b + r for the quotient q and the low n coefficients r
\* of the remainder rem, with m = degree(a), n = degree(b), L = b[n].
PseudoDivisionIdentity(q, rem) ==
    LET m == degree(a)
        n == degree(b)
        r == static_poly_convert(n, rem)
    IN  operator_eq(scalar_mul(a, IntPow(At(b, n), m - n + 1)),
                    poly_add(poly_mul(q, b), r))

\* C24: for integer polynomials a and b # 0 with degree(a) >= degree(b), on
\* completion of the pseudo-division the quotient q and the low n
\* coefficients r of the working remainder satisfy L^(m-n+1) * a == q*b + r.
C24_PseudoDivisionExact ==
    (op = "div" /\ to_bool(b) /\ degree(a) >= degree(b)
       /\ out.status # "abort") =>
      PseudoDivisionIdentity(out.quot, out.rem)

\* C26: for every dividend a and divisor b # 0 the remainder returned has
\* degree < degree(b): it has no non-zero coefficient at an index >=
\* degree(b).
C26_RemainderDegree ==
    (op = "div" /\ to_bool(b) /\ out.status = "ok") =>
      /\ degree(out.rem) < degree(b)
      /\ \A i \in degree(b)..(Len(out.rem) - 1) : At(out.rem, i) = 0

\* C27: the quotient has capacity max(capA - capB + 1, 1) and every position
\* k = degree(a) - degree(b), ..., 0 the main loop writes is an index of it.
C27_QuotientIndexValid ==
    (op = "div" /\ to_bool(b) /\ degree(a) >= degree(b)
       /\ out.status # "abort") =>
      /\ Len(out.quot) = Max(Len(a) - Len(b) + 1, 1)
      /\ \A k \in 0..(degree(a) - degree(b)) : k < Len(out.quot)
      /\ out.status # "ub"

\* C28: a call of quotient_remainder with b # 0 that reaches detail::division
\* (degree(a) >= degree(b)) satisfies its assertions: capB <= capA, b # 0,
\* a # 0; no assertion stops the call.
C28_DivisionAssertions ==
    (op = "div" /\ to_bool(b) /\ degree(a) >= degree(b)) =>
      /\ Len(b) <= Len(a) /\ to_bool(b) /\ to_bool(a)
      /\ out.status # "abort"

\* The positions of v's non-zero components (is_zero decides).
NonZeroAt(v) == {i \in 1..Len(v) : ~is_zero_floating(v[i])}

\* C25: for a complex pair, a quaternion 4-tuple and an octonion 8-tuple v,
\* is_negative(v) is true iff v has a non-zero component, the first non-zero
\* component is negative, and the negative non-zero components are at least
\* as many as the positive ones; with every component zero it is false.
C25_CompositeIsNegative ==
    op = "isnegative" =>
      (out.neg <=>
         /\ NonZeroAt(a) # {}
         /\ \E f \in NonZeroAt(a) :
              /\ \A i \in NonZeroAt(a) : f <= i
              /\ a[f] < 0
         /\ Cardinality({i \in NonZeroAt(a) : a[i] < 0})
              >= Cardinality({i \in NonZeroAt(a) : a[i] > 0}))

\* A quaternion whose first non-zero component is negative and whose
\* positive components outnumber the negative ones: not negative.
C25_Witness ==
    /\ op = "isnegative" /\ a = <<0 - 1, 0 - 2, 2, 2>> /\ ~out.neg

\* <<hi, hi - 1, ..., lo>>
Descending(hi, lo) == Array([i \in 1..(hi - lo + 1) |-> hi - (i - 1)])

\* The loop was entered: degree(a) >= degree(b) >= 0.
LoopEntered == out.m >= out.n /\ out.n >= 0

=============================================================================
